---- MODULE Spec2Model ----
(***************************************************************************)
(* A model of jira_time_logs.py: the month specifier validator, the date   *)
(* range resolver, the worklog fetcher, the aggregator, the report writer  *)
(* and the command-line pipeline that chains them.                         *)
(*                                                                         *)
(* Python values are modelled as follows.                                  *)
(*   - a str is a sequence of characters, each character a one-element     *)
(*     TLA+ string ("U+0663" stands for ARABIC-INDIC DIGIT THREE);         *)
(*   - an argument that may be None or of another type is a record         *)
(*     [type, chars];                                                      *)
(*   - a datetime.date is a triple <<year, month, day>>;                   *)
(*   - a float is an IEEE 754 binary64 number [neg, m, e];                 *)
(*   - a call's outcome is a record whose tag is "ok", "none" or the name  *)
(*     of the exception raised.                                            *)
(***************************************************************************)
EXTENDS Integers, Sequences, FiniteSets, TLC

VARIABLES
    pc,               \* position of the run
    today,            \* the wall clock's date, <<year, month, day>>
    target_date,      \* the --date / date_str / target_date argument
    output_format,    \* the --format / output_format argument
    range_args,       \* the (year, month) arguments of get_month_range
    entry,            \* the function the caller entered
    date_range,       \* fetch_time_logs's (start_date, end_date)
    issue_no,         \* fetch_time_logs's position in the issues
    ret,              \* outcome of the function under call
    tracker,          \* the issues the tracker returns to the query
    queries,          \* the JQL queries issued to the tracker so far
    time_logs,        \* the flat worklog records
    aggregated_logs,  \* the aggregated records
    files,            \* the files written so far
    stdout,           \* the lines printed so far
    exit_status       \* the process's exit status, -1 while running

vars == <<pc, today, target_date, output_format, range_args, entry, date_range,
          issue_no, ret, tracker, queries, time_logs, aggregated_logs, files,
          stdout, exit_status>>

----------------------------------------------------------------------------
(* Bounds of the model.                                                    *)

\* current years considered: 2024 .. 2024 + YearSpan
YearSpan == 1
\* longest list of worklog records handed to the aggregator and the writer
MaxLogs == 3
\* most worklogs of one issue
MaxWorklogs == 2

----------------------------------------------------------------------------
(* Python values.                                                          *)

None == [type |-> "NoneType", chars |-> <<>>]
Str(s) == [type |-> "str", chars |-> s]
NonStr(t) == [type |-> t, chars |-> <<>>]

\* truthiness of an argument: None and the empty string are falsy
Truthy(v) == v.type # "NoneType" /\ (v.type = "str" => v.chars # <<>>)

AsciiDigits == {"0", "1", "2", "3", "4", "5", "6", "7", "8", "9"}

\* str.isdigit / the regular expression class \d, which in a str pattern
\* matches every Unicode decimal digit
IsDigit(c) == c \in AsciiDigits \cup {"U+0663"}

DigitValue(c) ==
    CASE c = "0" -> 0 [] c = "1" -> 1 [] c = "2" -> 2 [] c = "3" -> 3
      [] c = "4" -> 4 [] c = "5" -> 5 [] c = "6" -> 6 [] c = "7" -> 7
      [] c = "8" -> 8 [] c = "9" -> 9 [] c = "U+0663" -> 3

DigitChar(d) ==
    CASE d = 0 -> "0" [] d = 1 -> "1" [] d = 2 -> "2" [] d = 3 -> "3"
      [] d = 4 -> "4" [] d = 5 -> "5" [] d = 6 -> "6" [] d = 7 -> "7"
      [] d = 8 -> "8" [] d = 9 -> "9"

IsSpace(c) == c \in {" ", "\n"}

\* str(n) for n >= 0
RECURSIVE IntToStr(_)
IntToStr(n) == IF n < 10 THEN <<DigitChar(n)>>
               ELSE IntToStr(n \div 10) \o <<DigitChar(n % 10)>>

\* f"{n:02d}"
Pad2(n) == IF n < 10 THEN <<"0">> \o IntToStr(n) ELSE IntToStr(n)

RECURSIVE StripLeft(_)
StripLeft(s) == IF s # <<>> /\ IsSpace(Head(s)) THEN StripLeft(Tail(s)) ELSE s

RECURSIVE StripRight(_)
StripRight(s) == IF s # <<>> /\ IsSpace(s[Len(s)])
                 THEN StripRight(SubSeq(s, 1, Len(s) - 1)) ELSE s

RECURSIVE DigitsValue(_, _)
DigitsValue(s, acc) == IF s = <<>> THEN acc
                       ELSE DigitsValue(Tail(s), 10 * acc + DigitValue(Head(s)))

\* int(s): surrounding whitespace is stripped; what is left must be decimal
\* digits.  ok = FALSE stands for the ValueError int raises.
ParseInt(s) ==
    LET t == StripRight(StripLeft(s))
    IN  IF t # <<>> /\ \A i \in 1..Len(t) : IsDigit(t[i])
        THEN [ok |-> TRUE, val |-> DigitsValue(t, 0)]
        ELSE [ok |-> FALSE, val |-> 0]

\* s.split(sep) for a one-character separator
RECURSIVE Split(_, _, _)
Split(s, sep, cur) ==
    IF s = <<>> THEN <<cur>>
    ELSE IF Head(s) = sep THEN <<cur>> \o Split(Tail(s), sep, <<>>)
    ELSE Split(Tail(s), sep, Append(cur, Head(s)))

\* re.match(r'^\d{4}-\d{2}$', s): without re.MULTILINE, $ matches at the end
\* of the string and also just before a newline that ends the string
ReMatchDate(s) ==
    LET body == IF Len(s) = 8 /\ s[8] = "\n" THEN SubSeq(s, 1, 7) ELSE s
    IN  /\ Len(body) = 7
        /\ \A i \in 1..4 : IsDigit(body[i])
        /\ body[5] = "-"
        /\ \A i \in 6..7 : IsDigit(body[i])

----------------------------------------------------------------------------
(* Outcomes of validate_date_format.                                       *)

MsgNotString == "Date must be a string in format YYYY-MM (e.g., 2024-03)"
MsgEmpty     == "Date string cannot be empty"
MsgFormat    == "Date must be in format YYYY-MM (e.g., 2024-03)"
MsgYear      == "Year must be between 2000 and {current_year + 1}"
MsgMonth     == "Month must be between 01 and 12"

\* msg is the message's text; bound is the value formatted into it
Returns(y, m) == [tag |-> "ok", year |-> y, month |-> m, msg |-> "", bound |-> 0]
ReturnsNone == [tag |-> "none", year |-> 0, month |-> 0, msg |-> "", bound |-> 0]
Raises(m, b) == [tag |-> "ValueError", year |-> 0, month |-> 0, msg |-> m, bound |-> b]

\* no outcome yet
NoRet == ReturnsNone

FirstYear == 2000

\* year < 2000 or year > current_year + 1
YearOutOfRange_NoGrace(year, current_year) == year < FirstYear \/ year > current_year

YearOutOfRange(year, current_year) == year < FirstYear \/ year > current_year + 1

\* month < 1 or month > 12
MonthOutOfRange(month) == month < 1 \/ month > 12

validate_date_format(date_str, current_year) ==
    IF date_str.type = "NoneType" THEN ReturnsNone
    ELSE IF date_str.type # "str" THEN Raises(MsgNotString, 0)
    ELSE IF date_str.chars = <<>> THEN Raises(MsgEmpty, 0)
    ELSE IF ~ReMatchDate(date_str.chars) THEN Raises(MsgFormat, 0)
    ELSE
      LET parts == Split(date_str.chars, "-", <<>>)
          ints  == [i \in 1..Len(parts) |-> ParseInt(parts[i])]
      IN  IF Len(parts) # 2 \/ \E i \in 1..Len(parts) : ~ints[i].ok
          THEN Raises(MsgFormat, 0)
          ELSE
            LET year  == ints[1].val
                month == ints[2].val
            IN  IF YearOutOfRange(year, current_year)
                THEN Raises(MsgYear, current_year + 1)
                ELSE IF MonthOutOfRange(month)
                THEN Raises(MsgMonth, 0)
                ELSE Returns(year, month)

----------------------------------------------------------------------------
(* get_month_range.                                                        *)

\* an optional integer argument
Absent == [none |-> TRUE, val |-> 0]
Given(n) == [none |-> FALSE, val |-> n]

\* calendar.isleap without the exception for the years divisible by 400
IsLeap_NoFourHundred(year) == year % 4 = 0 /\ year % 100 # 0

\* calendar.isleap
IsLeap(year) == year % 4 = 0 /\ (year % 100 # 0 \/ year % 400 = 0)

\* calendar.mdays
MDays(month) ==
    CASE month \in {1, 3, 5, 7, 8, 10, 12} -> 31
      [] month \in {4, 6, 9, 11} -> 30
      [] month = 2 -> 28

\* calendar.monthrange(year, month)[1]
DaysInMonth(year, month) == MDays(month) + (IF month = 2 /\ IsLeap(year) THEN 1 ELSE 0)

\* whether date(year, month, day) constructs a date; it raises ValueError
\* outside datetime.MINYEAR .. datetime.MAXYEAR, 1 .. 12 and the month's days
DateConstructs(year, month, day) ==
    /\ year \in 1..9999
    /\ month \in 1..12
    /\ day \in 1..DaysInMonth(year, month)

RangeOk(s, e) == [tag |-> "ok", start |-> s, end |-> e]
RangeRaises == [tag |-> "ValueError", start |-> <<0, 0, 0>>, end |-> <<0, 0, 0>>]

get_month_range(year, month, now) ==
    LET y == IF year.none \/ month.none THEN now[1] ELSE year.val
        m == IF year.none \/ month.none THEN now[2] ELSE month.val
    IN  IF ~DateConstructs(y, m, 1) THEN RangeRaises
        ELSE RangeOk(<<y, m, 1>>, <<y, m, DaysInMonth(y, m)>>)

\* date comparison a <= b
DateLe(a, b) ==
    \/ a[1] < b[1]
    \/ a[1] = b[1] /\ a[2] < b[2]
    \/ a[1] = b[1] /\ a[2] = b[2] /\ a[3] <= b[3]

----------------------------------------------------------------------------
(* aggregate_time_logs.                                                    *)

\* ord(c) of the characters that occur in names, keys and summaries
Ord(c) ==
    CASE c = "\n" -> 10 [] c = " " -> 32 [] c = "-" -> 45 [] c = "/" -> 47
      [] c \in AsciiDigits -> 48 + DigitValue(c)
      [] c = "J" -> 74 [] c = "T" -> 84 [] c = "Z" -> 90
      [] c = "a" -> 97 [] c = "b" -> 98 [] c = "c" -> 99 [] c = "d" -> 100
      [] c = "x" -> 120 [] c = "y" -> 121
      [] c = "U+0663" -> 1635

\* a comparison that orders letters without regard to case
RECURSIVE StrLt_IgnoreCase(_, _)
StrLt_IgnoreCase(a, b) ==
    LET fold(c) == IF Ord(c) \in 65..90 THEN Ord(c) + 32 ELSE Ord(c)
    IN  IF b = <<>> THEN FALSE
        ELSE IF a = <<>> THEN TRUE
        ELSE IF Head(a) = Head(b) THEN StrLt_IgnoreCase(Tail(a), Tail(b))
        ELSE fold(Head(a)) < fold(Head(b))

\* a < b on str: lexicographic by code point
RECURSIVE StrLt(_, _)
StrLt(a, b) ==
    IF b = <<>> THEN FALSE
    ELSE IF a = <<>> THEN TRUE
    ELSE IF Head(a) = Head(b) THEN StrLt(Tail(a), Tail(b))
    ELSE Ord(Head(a)) < Ord(Head(b))

\* ---- float: IEEE 754 binary64, round to nearest, ties to even ----
\* A natural number is a sequence of limbs below 2^15, least significant
\* first and without leading zero limbs; a float is [neg, m, e] of value
\* (-1)^neg * m * 2^e with m of exactly MantissaBits bits, or Zero.

LimbBase == 2^15
LimbBits == 15
MantissaBits == 53

RECURSIVE Trim(_)
Trim(a) == IF a # <<>> /\ a[Len(a)] = 0 THEN Trim(SubSeq(a, 1, Len(a) - 1)) ELSE a

Limb(a, i) == IF i <= Len(a) THEN a[i] ELSE 0

RECURSIVE NFromInt(_)
NFromInt(n) == IF n = 0 THEN <<>> ELSE <<n % LimbBase>> \o NFromInt(n \div LimbBase)

\* for numbers of at most two limbs
NToInt(a) == Limb(a, 1) + LimbBase * Limb(a, 2)

RECURSIVE AddLimbs(_, _, _, _)
AddLimbs(a, b, i, carry) ==
    IF i > Len(a) /\ i > Len(b) THEN (IF carry = 0 THEN <<>> ELSE <<carry>>)
    ELSE LET x == Limb(a, i) + Limb(b, i) + carry
         IN  <<x % LimbBase>> \o AddLimbs(a, b, i + 1, x \div LimbBase)

NAdd(a, b) == Trim(AddLimbs(a, b, 1, 0))

\* a - b for a >= b
RECURSIVE SubLimbs(_, _, _, _)
SubLimbs(a, b, i, borrow) ==
    IF i > Len(a) THEN <<>>
    ELSE LET x == Limb(a, i) - Limb(b, i) - borrow
         IN  IF x < 0 THEN <<x + LimbBase>> \o SubLimbs(a, b, i + 1, 1)
             ELSE <<x>> \o SubLimbs(a, b, i + 1, 0)

NSub(a, b) == Trim(SubLimbs(a, b, 1, 0))

RECURSIVE LessFrom(_, _, _)
LessFrom(a, b, i) ==
    IF i = 0 THEN FALSE
    ELSE IF a[i] # b[i] THEN a[i] < b[i]
    ELSE LessFrom(a, b, i - 1)

NLess(a, b) == IF Len(a) # Len(b) THEN Len(a) < Len(b) ELSE LessFrom(a, b, Len(a))

\* a * k for 0 <= k <= 2^15
RECURSIVE MulLimbs(_, _, _, _)
MulLimbs(a, k, i, carry) ==
    IF i > Len(a) THEN (IF carry = 0 THEN <<>> ELSE <<carry>>)
    ELSE LET x == a[i] * k + carry
         IN  <<x % LimbBase>> \o MulLimbs(a, k, i + 1, x \div LimbBase)

NMulSmall(a, k) == Trim(MulLimbs(a, k, 1, 0))

\* quotient and remainder of a by d, 0 < d <= 2^15
RECURSIVE DivLimbs(_, _, _, _)
DivLimbs(a, d, i, rem) ==
    IF i = 0 THEN [q |-> <<>>, r |-> rem]
    ELSE LET cur  == rem * LimbBase + a[i]
             rest == DivLimbs(a, d, i - 1, cur % d)
         IN  [q |-> Append(rest.q, cur \div d), r |-> rest.r]

NDivSmall(a, d) ==
    LET x == DivLimbs(a, d, Len(a), 0) IN [q |-> Trim(x.q), r |-> x.r]

\* a * 2^n
NShl(a, n) ==
    IF a = <<>> THEN <<>>
    ELSE [i \in 1..(n \div LimbBits) |-> 0] \o NMulSmall(a, 2^(n % LimbBits))

\* floor(a / 2^n)
NShr(a, n) ==
    IF n \div LimbBits >= Len(a) THEN <<>>
    ELSE NDivSmall(SubSeq(a, n \div LimbBits + 1, Len(a)), 2^(n % LimbBits)).q

RECURSIVE BitLength(_)
BitLength(x) == IF x = 0 THEN 0 ELSE 1 + BitLength(x \div 2)

NBits(a) == IF a = <<>> THEN 0 ELSE LimbBits * (Len(a) - 1) + BitLength(a[Len(a)])

\* the quotient q goes up by one when the remainder is over a half, or is a
\* half and q is odd
RoundHalfEven(q, rem, half) ==
    IF NLess(half, rem) \/ (rem = half /\ Limb(q, 1) % 2 = 1)
    THEN NAdd(q, <<1>>) ELSE q

RoundQuotient(a, n, q) == RoundHalfEven(q, NSub(a, NShl(q, n)), NShl(<<1>>, n - 1))

\* a / 2^n rounded to the nearest integer, a tie going to the even one
RoundShift(a, n) == IF n = 0 THEN a ELSE RoundQuotient(a, n, NShr(a, n))

Zero == [neg |-> FALSE, m |-> <<>>, e |-> 0]

\* a rounded mantissa q that has grown to 54 bits is 2^53: it is halved
Normalized(neg, q, e) ==
    IF NBits(q) > MantissaBits
    THEN [neg |-> neg, m |-> NShr(q, 1), e |-> e + 1]
    ELSE [neg |-> neg, m |-> q, e |-> e]

\* n of len bits brought to a mantissa of 53 bits
NearestOfLength(neg, n, e, len) ==
    IF len <= MantissaBits
    THEN [neg |-> neg, m |-> NShl(n, MantissaBits - len), e |-> e - (MantissaBits - len)]
    ELSE Normalized(neg, RoundShift(n, len - MantissaBits), e + (len - MantissaBits))

\* the float nearest to (-1)^neg * n * 2^e
Nearest(neg, n, e) == IF n = <<>> THEN Zero ELSE NearestOfLength(neg, n, e, NBits(n))

\* x * 2^e0 and y * 2^e0 with the signs of a and b, added exactly and rounded
AddAligned(a, b, x, y, e0) ==
    Nearest(IF a.neg = b.neg \/ ~NLess(x, y) THEN a.neg ELSE b.neg,
            IF a.neg = b.neg THEN NAdd(x, y)
            ELSE IF NLess(x, y) THEN NSub(y, x) ELSE NSub(x, y),
            e0)

\* both mantissas at the smaller exponent e0
AddAt(a, b, e0) == AddAligned(a, b, NShl(a.m, a.e - e0), NShl(b.m, b.e - e0), e0)

\* a + b
FAdd(a, b) ==
    IF a = Zero THEN b
    ELSE IF b = Zero THEN a
    ELSE AddAt(a, b, IF a.e < b.e THEN a.e ELSE b.e)

\* a - b
FSub(a, b) == FAdd(a, IF b = Zero THEN Zero ELSE [b EXCEPT !.neg = ~b.neg])

\* a * k for an integer 0 < k <= 2^15
FMulInt(a, k) == Nearest(a.neg, NMulSmall(a.m, k), a.e)

NearestQuotient(x) ==
    Nearest(FALSE, NAdd(NShl(x.q, 1), IF x.r # 0 THEN <<1>> ELSE <<>>), -76)

\* n / d for integers n >= 0 and 0 < d <= 2^15: the quotient is taken to 75
\* fractional bits and a sticky bit records a remainder
FDivInt(n, d) == NearestQuotient(NDivSmall(NShl(NFromInt(n), 75), d))

\* rint of a float a >= 0, as an integer
FRint(a) ==
    IF a = Zero THEN 0
    ELSE IF a.e >= 0 THEN NToInt(NShl(a.m, a.e))
    ELSE NToInt(RoundShift(a.m, -a.e))

\* round(2) of a float h >= 0: rint(h * 100) / 100
Round2(h) == FDivInt(FRint(FMulInt(h, 100)), 100)

Row(a, t, d, h) ==
    [Assignee |-> a, TicketNumber |-> t, TicketDescription |-> d, HoursLogged |-> h]

\* the groupby columns of a row
GroupKey(r) == <<r.Assignee, r.TicketNumber, r.TicketDescription>>

\* a < b on tuples of str, the order in which groupby sorts its keys
RECURSIVE KeyLt(_, _)
KeyLt(a, b) ==
    IF a = <<>> \/ b = <<>> THEN FALSE
    ELSE IF Head(a) = Head(b) THEN KeyLt(Tail(a), Tail(b))
    ELSE StrLt(Head(a), Head(b))

\* the keys of a set in ascending order
RECURSIVE SortKeys(_)
SortKeys(ks) ==
    IF ks = {} THEN <<>>
    ELSE LET least == CHOOSE k \in ks : \A o \in ks \ {k} : KeyLt(k, o)
         IN  <<least>> \o SortKeys(ks \ {least})

GroupKeys(logs) == [i \in 1..Len(logs) |-> GroupKey(logs[i])]

\* groupby sorts the group keys (sort=True is the default)
GroupOrder(logs) == SortKeys({GroupKey(logs[i]) : i \in 1..Len(logs)})

\* the hours of the rows whose key is k, in input order; keys[i] is the key
\* of row i
HoursOfGroup(logs, keys, k) ==
    LET mine == SelectSeq([i \in 1..Len(logs) |-> i], LAMBDA i : keys[i] = k)
    IN  [j \in 1..Len(mine) |-> logs[mine[j]].HoursLogged]

\* a sum that rounds every term to 2 decimals before adding it
RECURSIVE KahanSum_RoundEach(_, _, _)
KahanSum_RoundEach(hs, sumx, compensation) ==
    IF hs = <<>> THEN sumx
    ELSE LET y == FSub(Round2(Head(hs)), compensation)
             t == FAdd(sumx, y)
         IN  KahanSum_RoundEach(Tail(hs), t, FSub(FSub(t, sumx), y))

\* ['Hours Logged'].sum(): groupby's sum adds a group's values in input order
\* with Kahan's compensation
RECURSIVE KahanSum(_, _, _)
KahanNext(hs, sumx, y, t) == KahanSum(Tail(hs), t, FSub(FSub(t, sumx), y))

KahanAdd(hs, sumx, y) == KahanNext(hs, sumx, y, FAdd(sumx, y))

KahanSum(hs, sumx, compensation) ==
    IF hs = <<>> THEN sumx ELSE KahanAdd(hs, sumx, FSub(Head(hs), compensation))

\* df.groupby([...])['Hours Logged'].sum().reset_index()
GroupBySum(logs) ==
    LET ks == GroupOrder(logs)
    IN  [i \in 1..Len(ks) |-> Row(ks[i][1], ks[i][2], ks[i][3],
                               KahanSum(HoursOfGroup(logs, GroupKeys(logs), ks[i]), Zero, Zero))]

\* the sort_values columns: (Assignee, Ticket Number)
SortLt(a, b) ==
    \/ StrLt(a.Assignee, b.Assignee)
    \/ a.Assignee = b.Assignee /\ StrLt(a.TicketNumber, b.TicketNumber)

\* r put into a sorted sequence behind every row that is not greater
RECURSIVE InsertRow(_, _)
InsertRow(rows, r) ==
    IF rows = <<>> THEN <<r>>
    ELSE IF SortLt(r, Head(rows)) THEN <<r>> \o rows
    ELSE <<Head(rows)>> \o InsertRow(Tail(rows), r)

\* sort_values(['Assignee', 'Ticket Number']): a sort on several columns is
\* stable, rows that tie keep their order
RECURSIVE SortValues(_)
SortValues(rows) ==
    IF rows = <<>> THEN <<>>
    ELSE InsertRow(SortValues(SubSeq(rows, 1, Len(rows) - 1)), rows[Len(rows)])

\* df_grouped['Hours Logged'].round(2)
RoundHours(rows) ==
    [i \in 1..Len(rows) |-> [rows[i] EXCEPT !.HoursLogged = Round2(rows[i].HoursLogged)]]

aggregate_time_logs(logs) ==
    IF logs = <<>> THEN <<>>
    ELSE RoundHours(SortValues(GroupBySum(logs)))

----------------------------------------------------------------------------
(* fetch_time_logs.                                                        *)

SecondsPerHour == 3600

\* a worklog's started is "%Y-%m-%dT%H:%M:%S.%f%z": the date, the time of day
\* and the UTC offset as the tracker wrote them
Worklog(a, d, clock, offset, n) ==
    [author |-> a, started |-> [date |-> d, clock |-> clock, offset |-> offset],
     timeSpentSeconds |-> n]

Issue(k, summary, wl) == [key |-> k, summary |-> summary, worklogs |-> wl]

\* datetime.strptime(started, ...).date(): the date as written, not moved
\* to another time zone
WorklogDate(started) == started.date

\* start_date <= worklog_date <= end_date, without the upper bound
InRange_NoEnd(d, start, end) == DateLe(start, d)

\* start_date <= worklog_date <= end_date
InRange(d, start, end) == DateLe(start, d) /\ DateLe(d, end)

\* timeSpentSeconds / 3600
HoursOf(n) == FDivInt(n, SecondsPerHour)

\* the records fetch_time_logs appends for one issue
RecordsOfIssue(issue, start, end) ==
    LET kept == SelectSeq(issue.worklogs,
                          LAMBDA w : InRange(WorklogDate(w.started), start, end))
    IN  [i \in 1..Len(kept) |->
            Row(kept[i].author, issue.key, issue.summary, HoursOf(kept[i].timeSpentSeconds))]

TrackerError ==
    [tag |-> "JIRAError", year |-> 0, month |-> 0, msg |-> "tracker failure", bound |-> 0]

----------------------------------------------------------------------------
(* save_time_logs.                                                         *)

\* config.OUTPUT_FILENAME_PREFIX
OUTPUT_FILENAME_PREFIX ==
    <<"t", "e", "s", "t", "_", "t", "i", "m", "e", "_", "l", "o", "g", "s">>

Line(text, exc, name) == [text |-> text, exc |-> exc, name |-> name]

MsgNoLogs == "No time logs found for the specified month."
MsgSaved == "Time logs have been saved to {filename}"
MsgFetching(specified) ==
    IF specified THEN "Fetching time logs from Jira for specified month..."
    ELSE "Fetching time logs from Jira for current month..."
MsgAggregating == "Aggregating time logs..."
MsgError == "Error: {str(e)}"
MsgOccurred == "An error occurred: {str(e)}"

\* str.lower() of the format names in use
Lower(f) == CASE f = "Excel" -> "excel" [] f = "CSV" -> "csv" [] OTHER -> f

\* f"{month}"
MonthField_NoPad(month) == IntToStr(month)

\* f"{month:02d}"
MonthField(month) == Pad2(month)

\* f"{OUTPUT_FILENAME_PREFIX}_{year}_{month:02d}"
BaseFilename(year, month) ==
    OUTPUT_FILENAME_PREFIX \o <<"_">> \o IntToStr(year) \o <<"_">> \o MonthField(month)

\* current_date.strftime('%Y_%m') behind the prefix
BaseFilenameNow(now) ==
    OUTPUT_FILENAME_PREFIX \o <<"_">> \o IntToStr(now[1]) \o <<"_">> \o Pad2(now[2])

AssigneeKey(r) == <<r.Assignee>>
TicketKey(r) == <<r.TicketNumber, r.TicketDescription>>

\* pivot_table(values='Hours Logged', index=..., aggfunc='sum').round(2): one
\* row per index key, the keys ascending
PivotSum(rows, keys) ==
    LET ks == SortKeys({keys[i] : i \in 1..Len(rows)})
    IN  [i \in 1..Len(ks) |->
            [index |-> ks[i],
             HoursLogged |-> Round2(KahanSum(HoursOfGroup(rows, keys, ks[i]), Zero, Zero))]]

RECURSIVE InsertByDescription(_, _)
InsertByDescription(rows, r) ==
    IF rows = <<>> THEN <<r>>
    ELSE IF StrLt(r.index[2], Head(rows).index[2]) THEN <<r>> \o rows
    ELSE <<Head(rows)>> \o InsertByDescription(Tail(rows), r)

\* sort_values('Ticket Description'); rows with one description keep their
\* order, as the sort of a table of up to 16 rows does
RECURSIVE SortByDescription(_)
SortByDescription(rows) ==
    IF rows = <<>> THEN <<>>
    ELSE InsertByDescription(SortByDescription(SubSeq(rows, 1, Len(rows) - 1)),
                             rows[Len(rows)])

Sheet(title, rows) == [title |-> title, rows |-> rows]

\* the three sheets of the workbook
ExcelSheets(rows) ==
    << Sheet("Time Logs", rows),
       Sheet("Hours by Person", PivotSum(rows, [i \in 1..Len(rows) |-> AssigneeKey(rows[i])])),
       Sheet("Hours by Ticket",
             SortByDescription(PivotSum(rows, [i \in 1..Len(rows) |-> TicketKey(rows[i])]))) >>

\* outcomes of save_time_logs: it returns None or passes on the validator's
\* ValueError
SaveReturnsNone == [tag |-> "none", value |-> <<>>, exc |-> NoRet]
SaveRaises(v) == [tag |-> "ValueError", value |-> <<>>, exc |-> v]

\* an empty list is written like any other
NothingToSave_Never(logs) == FALSE

\* if not time_logs
NothingToSave(logs) == logs = <<>>

\* the file is written and its name printed; nothing is returned
Saved(file) ==
    [outcome |-> SaveReturnsNone,
     printed |-> <<Line(MsgSaved, NoRet, file.name)>>,
     written |-> <<file>>]

\* what a call of save_time_logs does: its outcome, the lines it prints and
\* the files it writes
save_time_logs(logs, date, format, now) ==
    IF NothingToSave(logs)
    THEN [outcome |-> SaveReturnsNone, printed |-> <<Line(MsgNoLogs, NoRet, <<>>)>>,
          written |-> <<>>]
    ELSE
      LET v == IF Truthy(date) THEN validate_date_format(date, now[1]) ELSE ReturnsNone
      IN  IF v.tag = "ValueError"
          THEN [outcome |-> SaveRaises(v), printed |-> <<>>, written |-> <<>>]
          ELSE
            LET base == IF Truthy(date) THEN BaseFilename(v.year, v.month)
                        ELSE BaseFilenameNow(now)
                file == IF Lower(format) = "excel"
                        THEN [name |-> base \o <<".", "x", "l", "s", "x">>,
                              sheets |-> ExcelSheets(logs)]
                        ELSE [name |-> base \o <<".", "c", "s", "v">>,
                              sheets |-> <<Sheet("", logs)>>]
            IN  Saved(file)

----------------------------------------------------------------------------
(* Inputs.                                                                 *)

CurrentYears == 2024 .. (2024 + YearSpan)

Todays == {<<y, 2, 15>> : y \in CurrentYears} \cup {<<y, 12, 31>> : y \in CurrentYears}

\* year fields: around both ends of the accepted interval, and malformed ones
YearFields ==
    {IntToStr(y) : y \in {1999, 2000, 2001} \cup (2024 .. (2024 + YearSpan + 2)) \cup {9999}}
    \cup {<<"2", "0", "2">>, <<"a", "b", "c", "d">>, <<>>,
          <<"2", "0", "2", "U+0663">>, <<"0", "0", "0", "0">>}

MonthFields ==
    {Pad2(m) : m \in {0, 1, 2, 3, 12, 13, 99}}
    \cup {<<"1">>, <<"a", "b">>, <<"1", "a">>, <<>>, <<"0", "U+0663">>}

Separators == {<<"-">>, <<"/">>, <<>>}

Prefixes == {<<>>, <<" ">>}

Suffixes == {<<>>, <<"\n">>, <<"\n", "\n">>, <<" ">>, <<"x">>}

DateStrings ==
    {p \o y \o sep \o m \o x :
        p \in Prefixes, y \in YearFields, sep \in Separators,
        m \in MonthFields, x \in Suffixes}

DateInputs == {None, NonStr("int"), NonStr("bool")} \cup {Str(s) : s \in DateStrings}

YearArgs ==
    {Absent} \cup {Given(y) : y \in {0, 1, 1900, 2000, 2023, 2100, 2400, 9999, 10000}
                                      \cup (2024 .. (2024 + YearSpan + 3))}

MonthArgs == {Absent} \cup {Given(m) : m \in 0..13}

NoRange == <<Absent, Absent>>

\* display names: code point order puts "Z" before "a"
Assignees == {<<"Z">>, <<"a">>}

\* issue keys: as strings "T-10" precedes "T-9"
TicketNumbers == {<<"T", "-", "1", "0">>, <<"T", "-", "9">>}

Summaries == {<<"x">>, <<"y">>}

\* worklog durations in seconds: 36 s is 0.01 h, 90 s is 0.025 h
Durations == {36, 90}

LogRecords ==
    {Row(a, t, d, FDivInt(n, SecondsPerHour)) :
        a \in Assignees, t \in TicketNumbers, d \in Summaries, n \in Durations}

SeqsUpTo(S, n) == UNION {[1..k -> S] : k \in 0..n}

\* "YYYY-MM" of a year and a month
MonthString(y, m) == Str(IntToStr(y) \o <<"-">> \o Pad2(m))

\* worklogs on the days around and at both ends of February 2024
WorklogInputs ==
    { Worklog(<<"Z">>, <<2024, 1, 31>>, "23:59:59.000", "+0000", 36),
      Worklog(<<"a">>, <<2024, 2, 1>>, "00:00:00.000", "+0000", 90),
      Worklog(<<"Z">>, <<2024, 2, 29>>, "23:30:00.000", "-0500", 90),
      Worklog(<<"a">>, <<2024, 3, 1>>, "00:00:00.000", "+0000", 36) }

IssueInputs(maxw) ==
    {Issue(<<"T", "-", "1", "0">>, <<"y">>, wl) : wl \in SeqsUpTo(WorklogInputs, maxw)}
    \cup {Issue(<<"T", "-", "9">>, <<"x">>, wl) : wl \in SeqsUpTo(WorklogInputs, maxw)}

\* the answers to a search: issues of distinct keys, each with at most maxw
\* worklogs
Trackers(maxw) ==
    {<<>>} \cup {<<i>> : i \in IssueInputs(maxw)}
    \cup {<<p[1], p[2]>> : p \in {q \in IssueInputs(maxw) \X IssueInputs(maxw) :
                                      q[1].key # q[2].key}}

FetchDates ==
    {None, Str(<<>>), NonStr("int"),
     MonthString(2024, 2), MonthString(2024, 3), MonthString(2024, 13)}

MainDates ==
    {None, Str(<<>>)}
    \cup {MonthString(y, m) : y \in {1999, 2024, 2024 + YearSpan + 1, 2024 + YearSpan + 2},
                              m \in {3, 13}}
    \cup {Str(<<"2", "0", "2", "4", "-", "0", "3", "\n">>),
          Str(<<"2", "0", "2", "4", "/", "0", "3">>)}

SaveDates == MainDates \cup {NonStr("int")}

MainFormats == {"csv", "excel"}

SaveFormats == MainFormats \cup {"Excel"}

SaveRecords ==
    {r \in LogRecords : r.TicketDescription = <<"x">> /\ r.HoursLogged = HoursOf(90)}

NoDates == <<<<0, 0, 0>>, <<0, 0, 0>>>>

\* nothing asked of the tracker
NoTracker ==
    /\ tracker = <<>>
    /\ queries = <<>>
    /\ date_range = NoDates
    /\ issue_no = 0

\* nothing written or printed, the process running
NoOutput ==
    /\ files = <<>>
    /\ stdout = <<>>
    /\ exit_status = -1

----------------------------------------------------------------------------
(* The validator called on its own.                                        *)

InitValidate ==
    /\ entry = "validate_date_format"
    /\ pc = "call"
    /\ today \in Todays
    /\ target_date \in DateInputs
    /\ output_format = "csv"
    /\ range_args = NoRange
    /\ ret = NoRet
    /\ time_logs = <<>>
    /\ aggregated_logs = <<>>
    /\ NoTracker
    /\ NoOutput

CallValidate ==
    /\ pc = "call"
    /\ ret' = validate_date_format(target_date, today[1])
    /\ pc' = "returned"
    /\ UNCHANGED <<today, target_date, output_format, range_args, entry, date_range,
                   issue_no, tracker, queries, time_logs, aggregated_logs, files,
                   stdout, exit_status>>

NextValidate == CallValidate

SpecValidate == InitValidate /\ [][NextValidate]_vars

----------------------------------------------------------------------------
(* The month specifier validator: claims C1 and C2.                        *)

\* a str of exactly seven characters: four ASCII digits, '-', two ASCII digits
WellFormed(v) ==
    /\ v.type = "str"
    /\ Len(v.chars) = 7
    /\ \A i \in {1, 2, 3, 4, 6, 7} : v.chars[i] \in AsciiDigits
    /\ v.chars[5] = "-"

InvalidFormat(r) == r.tag = "ValueError" /\ r.msg \in {MsgNotString, MsgEmpty, MsgFormat}

YearOf(v) == 1000 * DigitValue(v.chars[1]) + 100 * DigitValue(v.chars[2])
             + 10 * DigitValue(v.chars[3]) + DigitValue(v.chars[4])

MonthOf(v) == 10 * DigitValue(v.chars[6]) + DigitValue(v.chars[7])

\* C1: a non-null input is accepted only if it is exactly four ASCII digits,
\* '-' and two ASCII digits; every other non-null input, a string with a
\* trailing newline included, fails with InvalidFormat.
C1_AcceptsOnlyExactForm ==
    (pc = "returned" /\ target_date # None) =>
        /\ ret.tag = "ok" => WellFormed(target_date)
        /\ ~WellFormed(target_date) => InvalidFormat(ret)

\* "2024-03" followed by a newline is accepted as March 2024
C1_Witness ==
    /\ pc = "returned"
    /\ target_date = Str(<<"2", "0", "2", "4", "-", "0", "3", "\n">>)
    /\ ret = Returns(2024, 3)

\* C2: on a well-formed string the pair (year, month) is returned exactly
\* when 2000 <= year <= current_year + 1 and 1 <= month <= 12; a year outside
\* fails with the year message carrying current_year + 1, a month outside
\* (year inside) with the month message; a returned pair satisfies the
\* MonthSpec invariant; None is answered with None.
C2_RangeChecks ==
    pc = "returned" =>
        LET cy == today[1]
        IN  /\ WellFormed(target_date) =>
                LET y == YearOf(target_date)
                    m == MonthOf(target_date)
                    yearOk  == 2000 <= y /\ y <= cy + 1
                    monthOk == 1 <= m /\ m <= 12
                IN  /\ (ret = Returns(y, m)) <=> (yearOk /\ monthOk)
                    /\ ~yearOk => ret = Raises(MsgYear, cy + 1)
                    /\ (yearOk /\ ~monthOk) => ret = Raises(MsgMonth, 0)
            /\ ret.tag = "ok" =>
                /\ 2000 <= ret.year /\ ret.year <= cy + 1
                /\ 1 <= ret.month /\ ret.month <= 12
            /\ target_date = None => ret = ReturnsNone

\* the upper end of the year interval is accepted
C2_Witness ==
    /\ pc = "returned"
    /\ WellFormed(target_date)
    /\ YearOf(target_date) = today[1] + 1
    /\ ret = Returns(today[1] + 1, 12)

----------------------------------------------------------------------------
(* The date range resolver called on its own: claim C3.                    *)

InitRange ==
    /\ entry = "get_month_range"
    /\ pc = "call"
    /\ today \in Todays
    /\ target_date = None
    /\ output_format = "csv"
    /\ range_args \in YearArgs \X MonthArgs
    /\ ret = RangeRaises
    /\ time_logs = <<>>
    /\ aggregated_logs = <<>>
    /\ NoTracker
    /\ NoOutput

CallRange ==
    /\ pc = "call"
    /\ ret' = get_month_range(range_args[1], range_args[2], today)
    /\ pc' = "returned"
    /\ UNCHANGED <<today, target_date, output_format, range_args, entry, date_range,
                   issue_no, tracker, queries, time_logs, aggregated_logs, files,
                   stdout, exit_status>>

NextRange == CallRange

SpecRange == InitRange /\ [][NextRange]_vars

\* the number of days of a month as the claim words it
LengthOfMonth(y, m) ==
    IF m = 2
    THEN (IF y % 4 = 0 /\ ~(y % 100 = 0 /\ y % 400 # 0) THEN 29 ELSE 28)
    ELSE IF m \in {4, 6, 9, 11} THEN 30 ELSE 31

RangeOfMonth(r, y, m) ==
    /\ r.tag = "ok"
    /\ r.start = <<y, m, 1>>
    /\ r.end = <<y, m, LengthOfMonth(y, m)>>
    /\ DateLe(r.start, r.end)

\* C3 as stated: for every year and every month in 1..12 the range of that
\* month is returned.
C3_EveryYear ==
    (pc = "returned" /\ ~range_args[1].none /\ ~range_args[2].none
       /\ range_args[2].val \in 1..12) =>
        RangeOfMonth(ret, range_args[1].val, range_args[2].val)

\* C3 amended: for every year in 1..9999 and every month in 1..12 the result
\* is (first day, last day) of that month, the last day following the leap
\* rule, and start <= end; when either argument is absent the range is that
\* of today's year and month.
C3_MonthRange ==
    pc = "returned" =>
        /\ (~range_args[1].none /\ ~range_args[2].none
              /\ range_args[1].val \in 1..9999 /\ range_args[2].val \in 1..12) =>
                RangeOfMonth(ret, range_args[1].val, range_args[2].val)
        /\ (range_args[1].none \/ range_args[2].none) =>
                RangeOfMonth(ret, today[1], today[2])

\* February of a century leap year
C3_Witness ==
    /\ pc = "returned"
    /\ range_args = <<Given(2000), Given(2)>>
    /\ ret = RangeOk(<<2000, 2, 1>>, <<2000, 2, 29>>)

----------------------------------------------------------------------------
(* The aggregator called on its own: claims C4, C5 and C6.                 *)

InitAggregate ==
    /\ entry = "aggregate_time_logs"
    /\ pc = "call"
    /\ today \in {<<2024, 2, 15>>}
    /\ target_date = None
    /\ output_format = "csv"
    /\ range_args = NoRange
    /\ ret = NoRet
    /\ time_logs \in SeqsUpTo(LogRecords, MaxLogs)
    /\ aggregated_logs = <<>>
    /\ NoTracker
    /\ NoOutput

CallAggregate ==
    /\ pc = "call"
    /\ aggregated_logs' = aggregate_time_logs(time_logs)
    /\ pc' = "returned"
    /\ UNCHANGED <<today, target_date, output_format, range_args, entry, date_range,
                   issue_no, ret, tracker, queries, time_logs, files, stdout,
                   exit_status>>

NextAggregate == CallAggregate

SpecAggregate == InitAggregate /\ [][NextAggregate]_vars

Triples(rows) == {<<rows[i].Assignee, rows[i].TicketNumber, rows[i].TicketDescription>> :
                    i \in 1..Len(rows)}

\* the duration whose hours are h
SecondsIn(h) == CHOOSE n \in Durations : FDivInt(n, SecondsPerHour) = h

\* the seconds logged under a triple
RECURSIVE SecondsOf(_, _)
SecondsOf(logs, k) ==
    IF logs = <<>> THEN 0
    ELSE (IF <<Head(logs).Assignee, Head(logs).TicketNumber,
               Head(logs).TicketDescription>> = k
          THEN SecondsIn(Head(logs).HoursLogged) ELSE 0) + SecondsOf(Tail(logs), k)

\* c hundredths of an hour is a nearest 2-decimal value of n/3600 hours
NearestHundredth(c, n) ==
    LET d == 100 * n - 3600 * c
    IN  2 * (IF d < 0 THEN -d ELSE d) <= 3600

\* C4: one output record per distinct (Assignee, Ticket Number, Ticket
\* Description) of the input and none for another triple; each record's hours
\* are the sum of its triple's input hours rounded once, after summation; the
\* empty input gives the empty output.
C4_GroupsAndSums ==
    pc = "returned" =>
        /\ Triples(aggregated_logs) = Triples(time_logs)
        /\ Len(aggregated_logs) = Cardinality(Triples(time_logs))
        /\ \A i \in 1..Len(aggregated_logs) :
              LET r == aggregated_logs[i]
                  n == SecondsOf(time_logs, <<r.Assignee, r.TicketNumber, r.TicketDescription>>)
              IN  \E c \in 0..(n \div 36 + 1) :
                      r.HoursLogged = FDivInt(c, 100) /\ NearestHundredth(c, n)
        /\ time_logs = <<>> => aggregated_logs = <<>>

\* two records of 0.025 h under one triple sum to 0.05 h, and a record that
\* differs only in its description stays apart
C4_Witness ==
    /\ pc = "returned"
    /\ Len(time_logs) = 3
    /\ time_logs[1] = time_logs[2]
    /\ time_logs[1].HoursLogged = FDivInt(90, 3600)
    /\ time_logs[3].Assignee = time_logs[1].Assignee
    /\ time_logs[3].TicketNumber = time_logs[1].TicketNumber
    /\ time_logs[3].TicketDescription # time_logs[1].TicketDescription
    /\ Len(aggregated_logs) = 2
    /\ \E i \in 1..2 : aggregated_logs[i].HoursLogged = FDivInt(5, 100)

\* code point order on str, as the claim words it
RECURSIVE LexLess(_, _)
LexLess(a, b) ==
    \/ a = <<>> /\ b # <<>>
    \/ a # <<>> /\ b # <<>> /\ Ord(Head(a)) < Ord(Head(b))
    \/ a # <<>> /\ b # <<>> /\ Head(a) = Head(b) /\ LexLess(Tail(a), Tail(b))

\* C5: adjacent output records a, b have a.Assignee < b.Assignee, or equal
\* assignees and a.TicketNumber <= b.TicketNumber.
C5_Sorted ==
    pc = "returned" =>
        \A i \in 1..(Len(aggregated_logs) - 1) :
            LET a == aggregated_logs[i]
                b == aggregated_logs[i + 1]
            IN  \/ LexLess(a.Assignee, b.Assignee)
                \/ /\ a.Assignee = b.Assignee
                   /\ (LexLess(a.TicketNumber, b.TicketNumber) \/ a.TicketNumber = b.TicketNumber)

\* an input in descending order comes out with "Z" before "a" and, under
\* "Z", "T-10" before "T-9"
C5_Witness ==
    /\ pc = "returned"
    /\ Len(time_logs) = 3
    /\ time_logs[1].Assignee = <<"a">>
    /\ time_logs[2].Assignee = <<"Z">> /\ time_logs[2].TicketNumber = <<"T", "-", "9">>
    /\ time_logs[3].Assignee = <<"Z">> /\ time_logs[3].TicketNumber = <<"T", "-", "1", "0">>
    /\ Len(aggregated_logs) = 3
    /\ aggregated_logs[1].TicketNumber = <<"T", "-", "1", "0">>
    /\ aggregated_logs[3].Assignee = <<"a">>

Reorderings(s) ==
    {[i \in 1..Len(s) |-> s[f[i]]] :
        f \in {g \in [1..Len(s) -> 1..Len(s)] : \A i, j \in 1..Len(s) : g[i] = g[j] => i = j}}

\* C6: every permutation of the input gives the same output sequence.
C6_OrderIndependent ==
    pc = "returned" =>
        \A p \in Reorderings(time_logs) : aggregate_time_logs(p) = aggregated_logs

\* 36 s, 90 s and 36 s logged under one triple sum to 0.05 h, and to 0.04 h
\* with the two later records exchanged
C6_Witness ==
    /\ pc = "returned"
    /\ Len(time_logs) = 3
    /\ time_logs[1] = time_logs[3]
    /\ time_logs[1].HoursLogged = FDivInt(36, 3600)
    /\ time_logs[2] = [time_logs[1] EXCEPT !.HoursLogged = FDivInt(90, 3600)]
    /\ aggregated_logs[1].HoursLogged = FDivInt(5, 100)
    /\ aggregate_time_logs(<<time_logs[1], time_logs[3], time_logs[2]>>)[1].HoursLogged
           = FDivInt(4, 100)

----------------------------------------------------------------------------
(* fetch_time_logs, step by step.                                          *)

InitFetch ==
    /\ entry = "fetch_time_logs"
    /\ pc = "fetch_connect"
    /\ today = <<2024, 2, 15>>
    /\ target_date \in FetchDates
    /\ output_format = "csv"
    /\ range_args = NoRange
    /\ ret = NoRet
    /\ tracker \in Trackers(MaxWorklogs)
    /\ queries = <<>>
    /\ date_range = NoDates
    /\ issue_no = 0
    /\ time_logs = <<>>
    /\ aggregated_logs = <<>>
    /\ NoOutput

\* an exception leaves the function: its local list is gone
Raise(exc) ==
    /\ pc' = "raised"
    /\ ret' = exc
    /\ time_logs' = <<>>

\* jira = JIRA(server=..., basic_auth=...)
FetchConnect ==
    /\ pc = "fetch_connect"
    /\ pc' = "fetch_range"
    /\ UNCHANGED <<today, target_date, output_format, range_args, entry, date_range,
                   issue_no, ret, tracker, queries, time_logs, aggregated_logs,
                   files, stdout, exit_status>>

ConnectFails ==
    /\ pc = "fetch_connect"
    /\ Raise(TrackerError)
    /\ UNCHANGED <<today, target_date, output_format, range_args, entry, date_range,
                   issue_no, tracker, queries, aggregated_logs, files, stdout,
                   exit_status>>

\* the date range: of the validated target month, or of the current month
FetchRange ==
    /\ pc = "fetch_range"
    /\ LET v == validate_date_format(target_date, today[1])
           r == IF Truthy(target_date)
                THEN get_month_range(Given(v.year), Given(v.month), today)
                ELSE get_month_range(Absent, Absent, today)
       IN  IF Truthy(target_date) /\ v.tag = "ValueError"
           THEN Raise(v) /\ UNCHANGED date_range
           ELSE IF r.tag = "ValueError"
           THEN Raise(Raises("month must be in 1..12", 0)) /\ UNCHANGED date_range
           ELSE /\ date_range' = <<r.start, r.end>>
                /\ pc' = "fetch_search"
                /\ UNCHANGED <<ret, time_logs>>
    /\ UNCHANGED <<today, target_date, output_format, range_args, entry, issue_no,
                   tracker, queries, aggregated_logs, files, stdout, exit_status>>

\* issues = jira.search_issues(jql_query, maxResults=False); the query names
\* both ends of the range, and the tracker's answer is the variable tracker
FetchSearch ==
    /\ pc = "fetch_search"
    /\ queries' = Append(queries, [worklogDateFrom |-> date_range[1],
                                    worklogDateTo |-> date_range[2]])
    /\ issue_no' = 1
    /\ pc' = "fetch_loop"
    /\ UNCHANGED <<today, target_date, output_format, range_args, entry, date_range,
                   ret, tracker, time_logs, aggregated_logs, files, stdout,
                   exit_status>>

SearchFails ==
    /\ pc = "fetch_search"
    /\ queries' = Append(queries, [worklogDateFrom |-> date_range[1],
                                    worklogDateTo |-> date_range[2]])
    /\ Raise(TrackerError)
    /\ UNCHANGED <<today, target_date, output_format, range_args, entry, date_range,
                   issue_no, tracker, aggregated_logs, files, stdout, exit_status>>

\* one turn of "for issue in issues": the issue's worklogs are fetched and
\* those of the range appended
FetchIssue ==
    /\ pc = "fetch_loop"
    /\ issue_no <= Len(tracker)
    /\ time_logs' = time_logs \o RecordsOfIssue(tracker[issue_no], date_range[1],
                                                 date_range[2])
    /\ issue_no' = issue_no + 1
    /\ UNCHANGED <<pc, today, target_date, output_format, range_args, entry,
                   date_range, ret, tracker, queries, aggregated_logs, files, stdout,
                   exit_status>>

WorklogsFails ==
    /\ pc = "fetch_loop"
    /\ issue_no <= Len(tracker)
    /\ Raise(TrackerError)
    /\ UNCHANGED <<today, target_date, output_format, range_args, entry, date_range,
                   issue_no, tracker, queries, aggregated_logs, files, stdout,
                   exit_status>>

\* return time_logs, to main or to the caller
FetchReturn ==
    /\ pc = "fetch_loop"
    /\ issue_no > Len(tracker)
    /\ pc' = IF entry = "main" THEN "main_aggregate" ELSE "returned"
    /\ UNCHANGED <<today, target_date, output_format, range_args, entry, date_range,
                   issue_no, ret, tracker, queries, time_logs, aggregated_logs,
                   files, stdout, exit_status>>

NextFetch ==
    \/ FetchConnect
    \/ ConnectFails
    \/ FetchRange
    \/ FetchSearch
    \/ SearchFails
    \/ FetchIssue
    \/ WorklogsFails
    \/ FetchReturn

SpecFetch == InitFetch /\ [][NextFetch]_vars

\* a date as the number yyyymmdd
DayNumber(d) == 10000 * d[1] + 100 * d[2] + d[3]

\* the records due for the worklogs from entry j of issue i onward: one for
\* each worklog dated from lo to hi, in the order of the tracker's answer
RECURSIVE RecordsWithin(_, _, _, _, _)
RecordsWithin(issues, i, j, lo, hi) ==
    IF i > Len(issues) THEN <<>>
    ELSE IF j > Len(issues[i].worklogs) THEN RecordsWithin(issues, i + 1, 1, lo, hi)
    ELSE LET w == issues[i].worklogs[j]
             n == DayNumber(w.started.date)
         IN  (IF lo <= n /\ n <= hi
              THEN <<[Assignee |-> w.author, TicketNumber |-> issues[i].key,
                      TicketDescription |-> issues[i].summary,
                      HoursLogged |-> FDivInt(w.timeSpentSeconds, 3600)]>>
              ELSE <<>>) \o RecordsWithin(issues, i, j + 1, lo, hi)

\* the (year, month) a fetch is for: the target month, or today's
MonthFetched ==
    IF target_date.type = "str" /\ target_date.chars # <<>>
    THEN <<YearOf(target_date), MonthOf(target_date)>>
    ELSE <<today[1], today[2]>>

\* C7: fetch_time_logs returns exactly one record per worklog of each issue
\* of the tracker's answer whose date d has first day <= d <= last day of the
\* month, and none for a worklog outside; a record carries the author, the
\* issue key, the issue summary and timeSpentSeconds / 3600, not rounded.
C7_FetchedRecords ==
    (entry = "fetch_time_logs" /\ pc = "returned") =>
        LET y == MonthFetched[1]
            m == MonthFetched[2]
        IN  time_logs = RecordsWithin(tracker, 1, 1, 10000 * y + 100 * m + 1,
                                      10000 * y + 100 * m + LengthOfMonth(y, m))

\* February 2024 fetched from two issues whose worklogs lie on the day before
\* the month, its first day, its last day and the day after
C7_Witness ==
    /\ entry = "fetch_time_logs"
    /\ pc = "returned"
    /\ target_date = Str(<<"2", "0", "2", "4", "-", "0", "2">>)
    /\ Len(tracker) = 2
    /\ Len(tracker[1].worklogs) = 2
    /\ tracker[1].worklogs[1].started.date = <<2024, 1, 31>>
    /\ tracker[1].worklogs[2].started.date = <<2024, 2, 1>>
    /\ Len(tracker[2].worklogs) = 2
    /\ tracker[2].worklogs[1].started.date = <<2024, 2, 29>>
    /\ tracker[2].worklogs[2].started.date = <<2024, 3, 1>>
    /\ Len(time_logs) = 2
    /\ time_logs[1].HoursLogged = FDivInt(90, 3600)

----------------------------------------------------------------------------
(* main, and save_time_logs called on its own.                             *)

InitMain ==
    /\ entry = "main"
    /\ pc = "main_validate"
    /\ today \in Todays
    /\ target_date \in MainDates
    /\ output_format \in MainFormats
    /\ range_args = NoRange
    /\ ret = NoRet
    /\ tracker \in Trackers(1)
    /\ queries = <<>>
    /\ date_range = NoDates
    /\ issue_no = 0
    /\ time_logs = <<>>
    /\ aggregated_logs = <<>>
    /\ NoOutput

InitSave ==
    /\ entry = "save_time_logs"
    /\ pc = "call"
    /\ today \in Todays
    /\ target_date \in SaveDates
    /\ output_format \in SaveFormats
    /\ range_args = NoRange
    /\ ret = SaveReturnsNone
    /\ time_logs \in SeqsUpTo(SaveRecords, MaxLogs)
    /\ aggregated_logs = <<>>
    /\ NoTracker
    /\ NoOutput

\* if args.date: validate_date_format(args.date)
MainValidate ==
    /\ pc = "main_validate"
    /\ LET v == validate_date_format(target_date, today[1])
       IN  IF Truthy(target_date) /\ v.tag = "ValueError"
           THEN pc' = "raised" /\ ret' = v
           ELSE pc' = "main_announce" /\ UNCHANGED ret
    /\ UNCHANGED <<today, target_date, output_format, range_args, entry, date_range,
                   issue_no, tracker, queries, time_logs, aggregated_logs, files,
                   stdout, exit_status>>

\* print("Fetching ..."), then fetch_time_logs(args.date) is entered
MainAnnounce ==
    /\ pc = "main_announce"
    /\ stdout' = Append(stdout, Line(MsgFetching(Truthy(target_date)), NoRet, <<>>))
    /\ pc' = "fetch_connect"
    /\ UNCHANGED <<today, target_date, output_format, range_args, entry, date_range,
                   issue_no, ret, tracker, queries, time_logs, aggregated_logs,
                   files, exit_status>>

\* print("Aggregating time logs..."); aggregated_logs = aggregate_time_logs(time_logs)
MainAggregate ==
    /\ pc = "main_aggregate"
    /\ stdout' = Append(stdout, Line(MsgAggregating, NoRet, <<>>))
    /\ aggregated_logs' = aggregate_time_logs(time_logs)
    /\ pc' = "main_save"
    /\ UNCHANGED <<today, target_date, output_format, range_args, entry, date_range,
                   issue_no, ret, tracker, queries, time_logs, files, exit_status>>

\* save_time_logs(aggregated_logs, args.date, args.format)
MainSave ==
    /\ pc = "main_save"
    /\ \E done \in {save_time_logs(aggregated_logs, target_date, output_format, today)} :
           /\ stdout' = stdout \o done.printed
           /\ files' = files \o done.written
           /\ IF done.outcome.tag = "ValueError"
              THEN pc' = "raised" /\ ret' = done.outcome.exc
              ELSE pc' = "main_end" /\ UNCHANGED ret
    /\ UNCHANGED <<today, target_date, output_format, range_args, entry, date_range,
                   issue_no, tracker, queries, time_logs, aggregated_logs,
                   exit_status>>

\* main returns: the process ends with status 0
MainExit ==
    /\ pc = "main_end"
    /\ exit_status' = 0
    /\ pc' = "exited"
    /\ UNCHANGED <<today, target_date, output_format, range_args, entry, date_range,
                   issue_no, ret, tracker, queries, time_logs, aggregated_logs,
                   files, stdout>>

\* except ValueError as e: print(f"Error: {str(e)}"); sys.exit(1)
HandleValueError ==
    /\ pc = "raised"
    /\ entry = "main"
    /\ ret.tag = "ValueError"
    /\ stdout' = Append(stdout, Line(MsgError, ret, <<>>))
    /\ exit_status' = 1
    /\ pc' = "exited"
    /\ UNCHANGED <<today, target_date, output_format, range_args, entry, date_range,
                   issue_no, ret, tracker, queries, time_logs, aggregated_logs,
                   files>>

\* except Exception as e: print(f"An error occurred: {str(e)}"); sys.exit(1)
HandleException ==
    /\ pc = "raised"
    /\ entry = "main"
    /\ ret.tag # "ValueError"
    /\ stdout' = Append(stdout, Line(MsgOccurred, ret, <<>>))
    /\ exit_status' = 1
    /\ pc' = "exited"
    /\ UNCHANGED <<today, target_date, output_format, range_args, entry, date_range,
                   issue_no, ret, tracker, queries, time_logs, aggregated_logs,
                   files>>

\* save_time_logs(time_logs, target_date, output_format) called on its own
CallSave ==
    /\ pc = "call"
    /\ entry = "save_time_logs"
    /\ \E done \in {save_time_logs(time_logs, target_date, output_format, today)} :
           /\ stdout' = stdout \o done.printed
           /\ files' = files \o done.written
           /\ ret' = done.outcome
    /\ pc' = "returned"
    /\ UNCHANGED <<today, target_date, output_format, range_args, entry, date_range,
                   issue_no, tracker, queries, time_logs, aggregated_logs,
                   exit_status>>

Init == InitMain \/ InitSave

Next ==
    \/ MainValidate
    \/ MainAnnounce
    \/ NextFetch
    \/ MainAggregate
    \/ MainSave
    \/ MainExit
    \/ HandleValueError
    \/ HandleException
    \/ CallSave

Spec == Init /\ [][Next]_vars

Printed(text) == \E i \in 1..Len(stdout) : stdout[i].text = text

\* C8: a run of main whose --date the validator rejects, the empty string
\* included, issues no query and writes no file, and ends with an error
\* message and exit status 1.
C8_RejectedDateEndsRun ==
    (entry = "main" /\ target_date # None
       /\ validate_date_format(target_date, today[1]).tag = "ValueError") =>
        /\ queries = <<>>
        /\ files = <<>>
        /\ exit_status # 0
        /\ pc = "exited" => (exit_status = 1 /\ (Printed(MsgError) \/ Printed(MsgOccurred)))

\* --date "" is rejected by the validator, yet the run queries the tracker,
\* writes a file and ends with status 0
C8_Witness ==
    /\ entry = "main"
    /\ target_date = Str(<<>>)
    /\ validate_date_format(target_date, today[1]) = Raises(MsgEmpty, 0)
    /\ pc = "exited"
    /\ exit_status = 0
    /\ Len(queries) = 1
    /\ Len(files) = 1

\* C9: save_time_logs called with an empty list, whatever the month specifier
\* and the format, prints the notice, writes no file and returns; a run of
\* main whose fetch returned no worklog ends with status 0 and without a file.
C9_EmptyListWritesNothing ==
    /\ (entry = "save_time_logs" /\ pc = "returned" /\ time_logs = <<>>) =>
          /\ files = <<>>
          /\ stdout = <<Line(MsgNoLogs, NoRet, <<>>)>>
          /\ ret.tag = "none"
    /\ (entry = "main" /\ Printed(MsgAggregating) /\ time_logs = <<>>) =>
          /\ files = <<>>
          /\ exit_status # 1
          /\ pc = "exited" => (exit_status = 0 /\ stdout[Len(stdout)].text = MsgNoLogs)

\* a run of main over an issue whose only worklog is outside the month
C9_Witness ==
    /\ entry = "main"
    /\ pc = "exited"
    /\ Len(tracker) = 1
    /\ Len(tracker[1].worklogs) = 1
    /\ time_logs = <<>>
    /\ Printed(MsgNoLogs)
    /\ exit_status = 0
    /\ files = <<>>

\* a month specifier the validator is to accept in the current year cy
ValidSpecifier(v, cy) ==
    /\ WellFormed(v)
    /\ 2000 <= YearOf(v) /\ YearOf(v) <= cy + 1
    /\ 1 <= MonthOf(v) /\ MonthOf(v) <= 12

TwoDigits(n) == <<DigitChar(n \div 10), DigitChar(n % 10)>>

\* <prefix>_<year>_<month, two digits><extension>
FilenameDue ==
    OUTPUT_FILENAME_PREFIX \o <<"_">>
    \o (IF target_date = None THEN IntToStr(today[1]) ELSE SubSeq(target_date.chars, 1, 4))
    \o <<"_">>
    \o (IF target_date = None THEN TwoDigits(today[2]) ELSE SubSeq(target_date.chars, 6, 7))
    \o (IF output_format = "excel" THEN <<".", "x", "l", "s", "x">> ELSE <<".", "c", "s", "v">>)

\* save_time_logs has returned from a non-empty list, a valid or null month
\* specifier and one of the two formats
SavedRecords ==
    /\ entry = "save_time_logs"
    /\ pc = "returned"
    /\ time_logs # <<>>
    /\ output_format \in {"csv", "excel"}
    /\ target_date = None \/ ValidSpecifier(target_date, today[1])

\* C10 as stated: exactly one file is written and its filename returned.
C10_ReturnsFilename ==
    SavedRecords =>
        /\ Len(files) = 1
        /\ files[1].name = FilenameDue
        /\ ret.tag = "ok"
        /\ ret.value = FilenameDue

\* C10 amended: for a non-empty list, a valid month specifier and either
\* format, save_time_logs writes exactly one file, named
\* <prefix>_<year>_<month zero-padded to 2 digits> and the format's extension,
\* with the current year and month under a null specifier; it prints that
\* filename and returns nothing. A run of main that ends with status 0 on a
\* non-empty aggregate has written that one file.
C10_WritesNamedFile ==
    /\ SavedRecords =>
          /\ Len(files) = 1
          /\ files[1].name = FilenameDue
          /\ stdout = <<Line(MsgSaved, NoRet, FilenameDue)>>
          /\ ret = SaveReturnsNone
    /\ (entry = "main" /\ pc = "exited" /\ exit_status = 0 /\ aggregated_logs # <<>>
           /\ (target_date = None \/ ValidSpecifier(target_date, today[1]))) =>
          /\ Len(files) = 1
          /\ files[1].name = FilenameDue

\* month "2024-03" under csv
C10_Witness ==
    /\ entry = "save_time_logs"
    /\ pc = "returned"
    /\ time_logs # <<>>
    /\ target_date = Str(<<"2", "0", "2", "4", "-", "0", "3">>)
    /\ output_format = "csv"
    /\ Len(files) = 1
    /\ files[1].name = <<"t", "e", "s", "t", "_", "t", "i", "m", "e", "_", "l", "o", "g", "s",
                         "_", "2", "0", "2", "4", "_", "0", "3", ".", "c", "s", "v">>

====
